---- MODULE Spec2Model ----
(***************************************************************************)
(* A model of magefile.go: the reading-list site generator.                *)
(*                                                                         *)
(* GenerateSite reads readingList.csv, groups the records by month         *)
(* (groupEntriesByMonth), renders the listing (makeListHTML), substitutes  *)
(* it into the page template (renderHTMLPage) and writes .site/index.html. *)
(*                                                                         *)
(* Strings are sequences of atoms.  An atom is either one of the five      *)
(* characters html.EscapeString rewrites, or a run of characters that      *)
(* holds none of them.                                                     *)
(***************************************************************************)
EXTENDS Integers, Sequences, FiniteSets, TLC

VARIABLES
    pc,             \* where GenerateSite is
    csvFile,        \* readingList.csv: whether it can be read, and what it holds
    tmpl,           \* htmlPageTemplate, the embedded page.template.html
    now,            \* time.Now()
    sortImpl,       \* the algorithm of the toolchain's sort.Sort
    fsHealth,       \* the state of the file system the site is written to
    siteDir,        \* what .site is: missing, a directory, or a plain file
    indexFile,      \* .site/index.html
    started,        \* .site and .site/index.html as the run found them
    entries,        \* the records csvutil.Unmarshal loaded
    groupedEntries, \* the result of groupEntriesByMonth
    listingHTML,    \* the result of makeListHTML
    outputContent,  \* the result of renderHTMLPage
    err             \* what GenerateSite returns

vars == <<pc, csvFile, tmpl, now, sortImpl, fsHealth, siteDir, indexFile, started,
          entries, groupedEntries, listingHTML, outputContent, err>>

(***************************************************************************)
(* Bounds of the model.                                                    *)
(***************************************************************************)
\* longest record sequence over all of Dates given to groupEntriesByMonth
MaxEntries == 4
\* longest record sequence over the dates of January and February 2023
MaxRun == 7
\* longest record sequence given to makeListHTML
MaxListed == 3
\* most rows of readingList.csv in a run of GenerateSite
MaxRows == 2

Range(s) == {s[i] : i \in 1..Len(s)}

\* all sequences over S of length at most n
SeqsUpTo(S, n) == UNION {[1..k -> S] : k \in 0..n}

\* all orders in which the elements of S can be enumerated
Perms(S) == {p \in [1..Cardinality(S) -> S] : Range(p) = S}

(***************************************************************************)
(* time.Time: an instant (hours since 1970-01-01T00:00Z) shown at a zone   *)
(* offset (hours east of UTC).  The calendar is the proleptic Gregorian    *)
(* one, as in package time.                                                *)
(***************************************************************************)
HoursPerDay == 24

\* days since 1970-01-01 of the civil date y-m-d
DaysFromCivil(y, m, d) ==
    LET yy  == IF m <= 2 THEN y - 1 ELSE y
        era == yy \div 400
        yoe == yy - era * 400
        mp  == IF m > 2 THEN m - 3 ELSE m + 9
        doy == (153 * mp + 2) \div 5 + d - 1
        doe == yoe * 365 + yoe \div 4 - yoe \div 100 + doy
    IN  era * 146097 + doe - 719468

\* the civil date of a day number, as [year, month, day]
CivilFromDays(z0) ==
    LET z   == z0 + 719468
        era == z \div 146097
        doe == z - era * 146097
        yoe == (doe - doe \div 1460 + doe \div 36524 - doe \div 146096) \div 365
        doy == doe - (365 * yoe + yoe \div 4 - yoe \div 100)
        mp  == (5 * doy + 2) \div 153
        d   == doy - (153 * mp + 2) \div 5 + 1
        m   == IF mp < 10 THEN mp + 3 ELSE mp - 9
        y   == yoe + era * 400
    IN  [year |-> IF m <= 2 THEN y + 1 ELSE y, month |-> m, day |-> d]

\* time.Date(y, m, d, h, 0, 0, 0, zone at offset off)
timeDate(y, m, d, h, off) ==
    [unix |-> DaysFromCivil(y, m, d) * HoursPerDay + h - off, off |-> off]

\* t.Year(), t.Month(), t.Day(): read in t's own zone
Civil(t) == CivilFromDays((t.unix + t.off) \div HoursPerDay)
Year(t)  == Civil(t).year
Month(t) == Civil(t).month

\* t.After(u): compares the instants, whatever the zones
After(t, u) == t.unix > u.unix

\* the zero time.Time, the Date of a record whose date cell is empty
ZeroTime == timeDate(1, 1, 1, 0, 0)

(***************************************************************************)
(* sort.Sort on a slice of at most 12 elements.  data is the slice, L the  *)
(* set of pairs <<x, y>> with Less(x, y).  sort.Sort promises no           *)
(* stability, and the toolchains differ: up to Go 1.18 quickSort runs one  *)
(* ShellSort pass with gap 6 and then insertionSort; from Go 1.19 pdqsort  *)
(* runs insertionSort alone.  Longer slices take other paths, so every     *)
(* bound on the number of records stays at or below MaxInsertion.          *)
(***************************************************************************)
MaxInsertion == 12
ShellGap == 6

SortImpls == {"quickSort", "pdqsort"}

Swap(s, i, j) == [s EXCEPT ![i] = s[j], ![j] = s[i]]

RECURSIVE sinkDown(_, _, _)
\* for j := i; j > a && data.Less(j, j-1); j-- { data.Swap(j, j-1) }
sinkDown(s, j, L) ==
    IF j > 1 /\ <<s[j], s[j - 1]>> \in L
    THEN sinkDown(Swap(s, j, j - 1), j - 1, L)
    ELSE s

RECURSIVE insertionSort(_, _, _)
insertionSort(s, i, L) ==
    IF i > Len(s) THEN s ELSE insertionSort(sinkDown(s, i, L), i + 1, L)

RECURSIVE shellPass(_, _, _)
\* for i := a + 6; i < b; i++ { if data.Less(i, i-6) { data.Swap(i, i-6) } }
shellPass(s, i, L) ==
    IF i > Len(s) THEN s
    ELSE shellPass(IF <<s[i], s[i - ShellGap]>> \in L
                   THEN Swap(s, i, i - ShellGap) ELSE s, i + 1, L)

sortSort(data, L, impl) ==
    IF Len(data) <= 1 THEN data
    ELSE IF impl = "quickSort"
         THEN insertionSort(shellPass(data, ShellGap + 1, L), 2, L)
         ELSE insertionSort(data, 2, L)

(***************************************************************************)
(* readingListEntry, entrySlice, entryGroup, entryGroupSlice.  A           *)
(* *readingListEntry is the record's index in entries.                     *)
(***************************************************************************)
readingListEntry(url, title, description, image, date) ==
    [URL |-> url, Title |-> title, Description |-> description,
     Image |-> image, Date |-> date]

\* entrySlice.Less with Before in place of After
entrySliceLess_before(es) ==
    {pq \in (1..Len(es)) \X (1..Len(es)) : After(es[pq[2]].Date, es[pq[1]].Date)}

\* entrySlice.Less, as the set of pointer pairs it holds of
entrySliceLess(es) ==
    {pq \in (1..Len(es)) \X (1..Len(es)) : After(es[pq[1]].Date, es[pq[2]].Date)}

\* entryGroupSlice.Less with Before in place of After
entryGroupSliceLess_before(o) ==
    {gh \in Range(o) \X Range(o) : After(gh[2].Date, gh[1].Date)}

\* entryGroupSlice.Less, as the set of group pairs it holds of
entryGroupSliceLess(o) ==
    {gh \in Range(o) \X Range(o) : After(gh[1].Date, gh[2].Date)}

\* newTime := time.Date(entry.Date.Year(), entry.Date.Month(), 1, 0, 0, 0, 0, time.UTC)
monthKey(entry) == timeDate(Year(entry.Date), Month(entry.Date), 1, 0, 0)

\* the group's records replaced by the new one instead of extended by it
appendEntry_overwrite(group, p) == [group EXCEPT !.Entries = <<p>>]

\* groupMap[newTime].Entries = append(groupMap[newTime].Entries, entry)
appendEntry(group, p) == [group EXCEPT !.Entries = Append(@, p)]

RECURSIVE fillGroupMap(_, _, _)
\* the first loop of groupEntriesByMonth, from record i on
fillGroupMap(es, i, groupMap) ==
    IF i > Len(es) THEN groupMap
    ELSE LET newTime == monthKey(es[i])
             had     == IF newTime \in DOMAIN groupMap
                        THEN groupMap[newTime]
                        ELSE [Date |-> newTime, Entries |-> <<>>]
         IN  fillGroupMap(es, i + 1,
                 [k \in DOMAIN groupMap \cup {newTime} |->
                     IF k = newTime THEN appendEntry(had, i) ELSE groupMap[k]])

EmptyMap == [k \in {} |-> k]

\* sort.Sort(group.Entries)
sortEntries(es, group, impl) ==
    [group EXCEPT !.Entries = sortSort(@, entrySliceLess(es), impl)]

\* the groups left in the order the map gave them
sortGroups_skipped(o, impl) == o

\* sort.Sort(o)
sortGroups(o, impl) == sortSort(o, entryGroupSliceLess(o), impl)

\* the keys of the records of es: the keys the group map ends with
MonthKeys(es) == {monthKey(es[i]) : i \in 1..Len(es)}

\* groupEntriesByMonth, with the map iterated in the order iter
groupEntriesByMonth(es, iter, impl) ==
    LET groupMap == fillGroupMap(es, 1, EmptyMap)
        o == [n \in 1..Len(iter) |-> sortEntries(es, groupMap[iter[n]], impl)]
    IN  sortGroups(o, impl)

(***************************************************************************)
(* Strings and html.EscapeString.                                          *)
(***************************************************************************)
Quote == "\""

\* the characters html.EscapeString rewrites
Special == {"<", ">", "&", "'", Quote}

escapeAtom(a) ==
    CASE a = "<"   -> "&lt;"
      [] a = ">"   -> "&gt;"
      [] a = "&"   -> "&amp;"
      [] a = "'"   -> "&#39;"
      [] a = Quote -> "&#34;"
      [] OTHER     -> a

\* daz's escape: html.EscapeString
escape(s) == [i \in 1..Len(s) |-> escapeAtom(s[i])]

RECURSIVE Flatten(_)
\* strings.Join(parts, "")
Flatten(parts) ==
    IF parts = <<>> THEN <<>> ELSE Head(parts) \o Flatten(Tail(parts))

(***************************************************************************)
(* daz.H.  A content argument is a Go string, which H escapes, or a        *)
(* daz.HTML (also the result of daz.UnsafeContent), which H inserts as it  *)
(* is.  attrs is the daz.Attr as a sequence of <<name, value>>, in the     *)
(* order it is rendered in; a value is escaped and set in single quotes.   *)
(***************************************************************************)
Text(s) == [raw |-> FALSE, s |-> s]
Html(h) == [raw |-> TRUE, s |-> h]

selfClosingTags == {"br", "img"}

getAttributes(attrs) ==
    Flatten([i \in 1..Len(attrs) |->
                <<" ", attrs[i][1], "=", "'">> \o escape(attrs[i][2]) \o <<"'">>])

H(tag, attrs, contents) ==
    IF tag \in selfClosingTags
    THEN <<"<", tag>> \o getAttributes(attrs) \o <<" /", ">">>
    ELSE <<"<", tag>> \o getAttributes(attrs) \o <<">">>
         \o Flatten([i \in 1..Len(contents) |->
                        IF contents[i].raw THEN contents[i].s
                        ELSE escape(contents[i].s)])
         \o <<"<", "/", tag, ">">>

(***************************************************************************)
(* time.Month.String, Time.Format(dateFormat) and fmt's %d.                *)
(***************************************************************************)
MonthNames ==
    <<"January", "February", "March", "April", "May", "June", "July",
      "August", "September", "October", "November", "December">>

\* the digits of n, zero-padded to width 2 or 4
Pad(n, width) ==
    (IF width = 4 /\ n < 1000 THEN <<"0">> ELSE <<>>)
    \o (IF width = 4 /\ n < 100 THEN <<"0">> ELSE <<>>)
    \o (IF n < 10 THEN <<"0">> ELSE <<>>)
    \o <<ToString(n)>>

\* t.Format("2006-01-02")
formatDate(t) ==
    Pad(Civil(t).year, 4) \o <<"-">> \o Pad(Civil(t).month, 2) \o <<"-">>
    \o Pad(Civil(t).day, 2)

(***************************************************************************)
(* renderAnchor, renderUnsafeAnchor, makeListHTML.                         *)
(***************************************************************************)
anchorAttrs(url, newTab) ==
    <<<<"href", url>>, <<"rel", <<"noopener">>>>>>
    \o (IF newTab THEN <<<<"target", <<"_blank">>>>>> ELSE <<>>)

renderUnsafeAnchor(text, url, newTab) ==
    H("a", anchorAttrs(url, newTab), <<Html(text)>>)

\* the anchor text inserted as it is
renderAnchor_unescaped(text, url, newTab) == renderUnsafeAnchor(text, url, newTab)

renderAnchor(text, url, newTab) ==
    H("a", anchorAttrs(url, newTab), <<Text(text)>>)

headerLevel == "h2"

Placeholder == <<"<", "none", ">">>

\* the Description line without the placeholder
descriptionContent_asIs(article) == article.Description

\* the text of the Description line
descriptionContent(article) ==
    IF article.Description # <<>> THEN article.Description ELSE Placeholder

\* the Image line, when the record has an image
imageInfo(article) ==
    IF article.Image # <<>>
    THEN <<Html(H("div", <<>>,
              <<Text(<<"Image:">>), Html(H("br", <<>>, <<>>)),
                Html(H("img", <<<<"loading", <<"lazy">>>>,
                                <<"src", article.Image>>,
                                <<"style", <<"max-width: 256px;">>>>>>, <<>>))>>))>>
    ELSE <<>>

\* the body of the loop over group.Entries: one list item
listItem(article) ==
    LET titleLine ==
            H("summary", <<>>,
              <<Html(renderAnchor(article.Title, article.URL, FALSE)),
                Text(<<" - ">> \o formatDate(article.Date))>>)
        detailedInfo ==
            <<Html(H("div", <<>>,
                  <<Text(<<"Description:">>),
                    Html(H("i", <<>>, <<Text(descriptionContent(article))>>))>>))>>
            \o imageInfo(article)
    IN  H("li", <<>>,
          <<Html(H("details", <<>>,
                <<Html(titleLine),
                  Html(H("div", <<<<"class", <<"description">>>>>>, detailedInfo))>>))>>)

\* the body of the loop over groups: the header and the list
groupPart(es, group) ==
    LET header == H(headerLevel, <<>>,
                    <<Text(<<MonthNames[Month(group.Date)], " ",
                             ToString(Year(group.Date))>>)>>)
        items  == [n \in 1..Len(group.Entries) |->
                      Html(listItem(es[group.Entries[n]]))]
    IN  header \o H("ul", <<>>, items)

\* every record in one list, which is there even when no record is
makeListHTML_oneList(es, groups) ==
    H("div", <<>>,
      <<Html(H("ul", <<>>,
             [g \in 1..Len(groups) |-> Html(groupPart(es, groups[g]))]))>>)

makeListHTML(es, groups) ==
    H("div", <<>>, [g \in 1..Len(groups) |-> Html(groupPart(es, groups[g]))])

(***************************************************************************)
(* text/template: the page template is a sequence of nodes: literal text,  *)
(* a field of the data ({{.Name}}), or an action that is never closed.     *)
(* Parse fails on an unclosed action.  Execute writes the nodes in turn    *)
(* and stops, with what it wrote so far left in the buffer, at a field     *)
(* the data does not have.  Nothing is escaped.                            *)
(***************************************************************************)
TText(s)     == [kind |-> "text", s |-> s, name |-> ""]
TField(name) == [kind |-> "field", s |-> <<>>, name |-> name]
TUnclosed    == [kind |-> "unclosed", s |-> <<>>, name |-> ""]

\* page.template.html: the document title, the extra head content, the title
\* bar and the content, each in its place
PageTemplate ==
    <<TText(<<"<", "html", ">", "<", "title", ">">>), TField("Title"),
      TText(<<"<", "/", "title", ">">>), TField("ExtraHeadContent"),
      TText(<<"<", "body", ">">>), TField("PageTitleBar"), TField("Content"),
      TText(<<"<", "/", "body", ">", "<", "/", "html", ">">>)>>

\* a template that names a field the page data does not have
MisnamedFieldTemplate == [PageTemplate EXCEPT ![6] = TField("TitleBar")]

\* a template with an action left open
UnclosedTemplate == [PageTemplate EXCEPT ![6] = TUnclosed]

Templates == {PageTemplate, MisnamedFieldTemplate, UnclosedTemplate}

templateParses(t) == \A i \in 1..Len(t) : t[i].kind # "unclosed"

RECURSIVE templateExecute(_, _, _, _)
\* tpl.Execute(outputBuf, data), from node i on
templateExecute(t, i, data, buf) ==
    IF i > Len(t) THEN [buf |-> buf, err |-> "nil"]
    ELSE IF t[i].kind = "text" THEN templateExecute(t, i + 1, data, buf \o t[i].s)
    ELSE IF t[i].name \in DOMAIN data
         THEN templateExecute(t, i + 1, data, buf \o data[t[i].name])
         ELSE [buf |-> buf, err |-> "exec"]

\* renderHTMLPage: Parse's error is returned, Execute's is dropped
renderHTMLPage(t, title, titleBar, pageContent, extraHeadContent) ==
    IF ~templateParses(t) THEN [out |-> <<>>, err |-> "template"]
    ELSE [out |-> templateExecute(t, 1,
                      [Title |-> title, Content |-> pageContent,
                       PageTitleBar |-> titleBar,
                       ExtraHeadContent |-> extraHeadContent], <<>>).buf,
          err |-> "nil"]

(***************************************************************************)
(* GenerateSite.                                                           *)
(***************************************************************************)
pageTitle == <<"akp", "'", "s reading list">>

\* the heading: the title, and the sentence with the count of records, the
\* date of the run and the link to the repository, inserted unescaped
makeHead(numArticles, today) ==
    H("div", <<<<"class", <<"heading">>>>>>,
      <<Html(H("h1", <<>>, <<Text(pageTitle)>>)),
        Html(H("p", <<<<"class", <<"information">>>>>>,
               <<Html(<<"A mostly complete list of articles I", "'", "ve read",
                        "<", "br", ">", "There are currently ",
                        ToString(numArticles), " entries in the list",
                        "<", "br", ">", "Last modified ">>
                      \o formatDate(today)
                      \o <<"<", "br", ">", "Repo: ">>
                      \o renderUnsafeAnchor(
                             <<"<", "code", ">", "codemicro/readingList",
                               "<", "/", "code", ">">>,
                             <<"https://github.com/codemicro/readingList">>,
                             FALSE))>>))>>)

NoFile == [exists |-> FALSE, content |-> <<>>]
File(content) == [exists |-> TRUE, content |-> content]

\* fcont, err := ioutil.ReadFile(readingListFile); if err != nil { return err }
ReadFile ==
    /\ pc = "start"
    /\ IF csvFile.readable
       THEN pc' = "read" /\ err' = err
       ELSE pc' = "done" /\ err' = "read"
    /\ UNCHANGED <<csvFile, tmpl, now, sortImpl, fsHealth, siteDir, indexFile,
                   started, entries, groupedEntries, listingHTML, outputContent>>

\* err = csvutil.Unmarshal(fcont, &entries); if err != nil { return err }
Unmarshal ==
    /\ pc = "read"
    /\ IF csvFile.wellformed
       THEN pc' = "parsed" /\ entries' = csvFile.rows /\ err' = err
       ELSE pc' = "done" /\ entries' = entries /\ err' = "parse"
    /\ UNCHANGED <<csvFile, tmpl, now, sortImpl, fsHealth, siteDir, indexFile,
                   started, groupedEntries, listingHTML, outputContent>>

\* groupedEntries := groupEntriesByMonth(entries)
GroupEntries ==
    /\ pc = "parsed"
    /\ \E iter \in Perms(MonthKeys(entries)) :
          groupedEntries' = groupEntriesByMonth(entries, iter, sortImpl)
    /\ pc' = "grouped"
    /\ UNCHANGED <<csvFile, tmpl, now, sortImpl, fsHealth, siteDir, indexFile,
                   started, entries, listingHTML, outputContent, err>>

\* listingHTML := makeListHTML(groupedEntries)
MakeList ==
    /\ pc = "grouped"
    /\ listingHTML' = makeListHTML(entries, groupedEntries)
    /\ pc' = "listed"
    /\ UNCHANGED <<csvFile, tmpl, now, sortImpl, fsHealth, siteDir, indexFile,
                   started, entries, groupedEntries, outputContent, err>>

\* outputContent, err := renderHTMLPage(pageTitle, head(), listingHTML, "")
\* if err != nil { return err }
RenderPage ==
    /\ pc = "listed"
    /\ LET r == renderHTMLPage(tmpl, pageTitle, makeHead(Len(entries), now),
                               listingHTML, <<>>)
       IN  /\ outputContent' = r.out
           /\ err' = r.err
           /\ pc' = IF r.err = "nil" THEN "rendered" ELSE "done"
    /\ UNCHANGED <<csvFile, tmpl, now, sortImpl, fsHealth, siteDir, indexFile,
                   started, entries, groupedEntries, listingHTML>>

\* whether os.Mkdir(".site", 0777) can make the directory: it cannot where
\* .site exists or the file system is read-only; on a full one it may or may not
MkdirOutcomes ==
    IF siteDir # "missing" \/ fsHealth = "readonly" THEN {FALSE}
    ELSE IF fsHealth = "full" THEN {TRUE, FALSE}
    ELSE {TRUE}

\* Mkdir's error returned instead of dropped
Mkdir_checked ==
    /\ pc = "rendered"
    /\ \E made \in MkdirOutcomes :
          /\ siteDir' = IF made THEN "dir" ELSE siteDir
          /\ pc' = IF made THEN "made" ELSE "done"
          /\ err' = IF made THEN err ELSE "write"
    /\ UNCHANGED <<csvFile, tmpl, now, sortImpl, fsHealth, indexFile, started,
                   entries, groupedEntries, listingHTML, outputContent>>

\* _ = os.Mkdir(".site", 0777)
Mkdir ==
    /\ pc = "rendered"
    /\ \E made \in MkdirOutcomes :
          siteDir' = IF made THEN "dir" ELSE siteDir
    /\ pc' = "made"
    /\ UNCHANGED <<csvFile, tmpl, now, sortImpl, fsHealth, indexFile, started,
                   entries, groupedEntries, listingHTML, outputContent, err>>

\* what a failed write can leave of data in a file opened with O_TRUNC
PartialWrites(data) == {<<>>, SubSeq(data, 1, Len(data) \div 2)}

\* return ioutil.WriteFile(".site/index.html", outputContent, 0644)
WriteFile ==
    /\ pc = "made"
    /\ IF siteDir # "dir" \/ fsHealth = "readonly"
       THEN indexFile' = indexFile /\ err' = "write"
       ELSE IF fsHealth = "full"
            THEN /\ \E part \in PartialWrites(outputContent) :
                        indexFile' = File(part)
                 /\ err' = "write"
            ELSE indexFile' = File(outputContent) /\ err' = "nil"
    /\ pc' = "done"
    /\ UNCHANGED <<csvFile, tmpl, now, sortImpl, fsHealth, siteDir, started,
                   entries, groupedEntries, listingHTML, outputContent>>

(***************************************************************************)
(* The inputs.  The dates: two instants of January 2023, the later one     *)
(* also as read in a zone where it is already February, a day of February, *)
(* and the zero time of a record without a date.                           *)
(***************************************************************************)
Jan05 == timeDate(2023, 1, 5, 0, 0)
Jan31 == timeDate(2023, 1, 31, 20, 0)
Feb01East == timeDate(2023, 2, 1, 1, 5)
Feb10 == timeDate(2023, 2, 10, 0, 0)

Dates == {Jan05, Jan31, Feb01East, ZeroTime}
RunDates == {Jan05, Jan31, Feb01East}

DatedEntry(d) == readingListEntry(<<>>, <<>>, <<>>, <<>>, d)

TitleA == readingListEntry(<<"https://a.example">>, <<"Title A">>, <<>>, <<>>, Jan05)
TitleB == readingListEntry(<<"https://b.example">>, <<"Title B">>, <<"Desc B">>,
                           <<"https://img.example/x.png">>, Feb10)
Hostile == readingListEntry(<<"'", ">", "<", "script", ">">>, <<"<", "script", ">">>,
                            <<"<", "/", "i", ">", "&", Quote>>,
                            <<"x", "'", " onerror=", "'", "alert(1)">>, Jan31)
Blank == readingListEntry(<<>>, <<>>, <<>>, <<>>, ZeroTime)
ImageOnly == readingListEntry(<<"https://a.example">>, <<"Title A">>, <<>>,
                              <<"https://img.example/y.png">>, Feb01East)
NoneText == readingListEntry(<<"https://c.example">>, <<"Title C">>, Placeholder,
                             <<>>, Jan31)

ListedRecords == {TitleA, TitleB, Hostile, Blank, ImageOnly, NoneText}
SiteRecords == {TitleA, TitleB, Hostile}

\* the state every run starts in, whatever it is given
Blanks ==
    /\ groupedEntries = <<>>
    /\ listingHTML = <<>>
    /\ outputContent = <<>>
    /\ err = "nil"
    /\ started = [siteDir |-> siteDir, indexFile |-> indexFile]

\* a healthy file system without .site, and the page template: the
\* surroundings of the runs that look at one function alone
Surroundings ==
    /\ csvFile = [readable |-> TRUE, wellformed |-> TRUE, rows |-> entries]
    /\ tmpl = PageTemplate
    /\ now = Feb10
    /\ fsHealth = "ok"
    /\ siteDir = "missing"
    /\ indexFile = NoFile

\* groupEntriesByMonth on its own
InitGroup ==
    /\ pc = "parsed"
    /\ entries \in SeqsUpTo({DatedEntry(d) : d \in Dates}, MaxEntries)
                   \cup SeqsUpTo({DatedEntry(d) : d \in RunDates}, MaxRun)
    /\ sortImpl \in SortImpls
    /\ Surroundings
    /\ Blanks

NextGroup == GroupEntries

SpecGroup == InitGroup /\ [][NextGroup]_vars

\* groupEntriesByMonth and then makeListHTML
InitList ==
    /\ pc = "parsed"
    /\ entries \in SeqsUpTo(ListedRecords, MaxListed)
    /\ sortImpl \in SortImpls
    /\ Surroundings
    /\ Blanks

NextList == GroupEntries \/ MakeList

SpecList == InitList /\ [][NextList]_vars

\* a run of GenerateSite
Init ==
    /\ pc = "start"
    /\ csvFile \in [readable : BOOLEAN, wellformed : BOOLEAN,
                    rows : SeqsUpTo(SiteRecords, MaxRows)]
    /\ ~csvFile.wellformed => csvFile.rows = <<>>
    /\ ~csvFile.readable => (csvFile.wellformed /\ csvFile.rows = <<>>)
    /\ tmpl \in Templates
    /\ now = Feb10
    /\ sortImpl \in SortImpls
    /\ fsHealth \in {"ok", "readonly", "full"}
    /\ siteDir \in {"missing", "dir", "file"}
    /\ indexFile \in {NoFile, File(<<"old">>)}
    /\ indexFile.exists => siteDir = "dir"
    /\ entries = <<>>
    /\ Blanks

Next ==
    \/ ReadFile
    \/ Unmarshal
    \/ GroupEntries
    \/ MakeList
    \/ RenderPage
    \/ Mkdir
    \/ WriteFile

Spec == Init /\ [][Next]_vars

(***************************************************************************)
(* Properties of groupEntriesByMonth.                                      *)
(***************************************************************************)
\* the places <<g, j>> of the result: record j of group g
Places == {gj \in (1..Len(groupedEntries)) \X (1..MaxInsertion) :
              gj[2] <= Len(groupedEntries[gj[1]].Entries)}

PlacedAt(gj) == groupedEntries[gj[1]].Entries[gj[2]]

\* C2: the groups partition the input: every input record is at exactly one
\* place of the result, every place holds an input record, and the key of the
\* group a record sits in is UTC midnight of the first day of the record's own
\* year and month.
C2_GroupingIsPartition ==
    pc = "grouped" =>
        /\ \A p \in 1..Len(entries) :
               Cardinality({gj \in Places : PlacedAt(gj) = p}) = 1
        /\ \A gj \in Places : PlacedAt(gj) \in 1..Len(entries)
        /\ \A gj \in Places :
               LET key  == groupedEntries[gj[1]].Date
                   date == entries[PlacedAt(gj)].Date
               IN  /\ key.off = 0
                   /\ key.unix % HoursPerDay = 0
                   /\ Civil(key) = [year |-> Year(date), month |-> Month(date), day |-> 1]

\* two groups, one of them with several records, one record read in a zone
\* where its month differs from the month of the same instant in UTC
C2_Witness ==
    /\ pc = "grouped"
    /\ Len(groupedEntries) >= 2
    /\ \E g \in 1..Len(groupedEntries) : Len(groupedEntries[g].Entries) >= 2
    /\ \E p, q \in 1..Len(entries) :
          /\ entries[p].Date.unix = entries[q].Date.unix
          /\ Month(entries[p].Date) # Month(entries[q].Date)

\* C3: inside every group the records are in descending date order: each
\* record's date is at or after the date of the record that follows it.
C3_EntriesDescending ==
    pc = "grouped" =>
        \A g \in 1..Len(groupedEntries) :
            LET E == groupedEntries[g].Entries
            IN  \A j \in 1..(Len(E) - 1) :
                    entries[E[j]].Date.unix >= entries[E[j + 1]].Date.unix

\* a group whose records came in ascending order and were turned round
C3_Witness ==
    /\ pc = "grouped"
    /\ \E g \in 1..Len(groupedEntries) :
          LET E == groupedEntries[g].Entries
          IN  \E j \in 1..(Len(E) - 1) :
                  /\ E[j] > E[j + 1]
                  /\ After(entries[E[j]].Date, entries[E[j + 1]].Date)

\* C4: the groups are ordered newest month first: each group's key is at or
\* after the key of the group that follows it.
C4_GroupsDescending ==
    pc = "grouped" =>
        \A g \in 1..(Len(groupedEntries) - 1) :
            groupedEntries[g].Date.unix >= groupedEntries[g + 1].Date.unix

\* three groups, from records that came oldest month first
C4_Witness ==
    /\ pc = "grouped"
    /\ Len(groupedEntries) >= 3
    /\ Len(entries) >= 2
    /\ After(entries[Len(entries)].Date, entries[1].Date)
    /\ Month(entries[Len(entries)].Date) # Month(entries[1].Date)

\* C9: inside a group, records with equal dates keep the order they had in
\* the input (the sort of a group's records is stable).
C9_EqualDatesKeepInputOrder ==
    pc = "grouped" =>
        \A g \in 1..Len(groupedEntries) :
            LET E == groupedEntries[g].Entries
            IN  \A j, k \in 1..Len(E) :
                    (j < k /\ entries[E[j]].Date.unix = entries[E[k]].Date.unix)
                        => E[j] < E[k]

\* C10: the result does not depend on the order in which the group map is
\* iterated: every iteration order gives the sequence of groups, and the order
\* of the records inside each group, that the run produced.
C10_IterationOrderIrrelevant ==
    pc = "grouped" =>
        \A iter \in Perms(MonthKeys(entries)) :
            groupEntriesByMonth(entries, iter, sortImpl) = groupedEntries

\* a result of three groups, which the map can yield in six orders
C10_Witness ==
    /\ pc = "grouped"
    /\ Len(groupedEntries) >= 3
    /\ Cardinality(Perms(MonthKeys(entries))) >= 6

(***************************************************************************)
(* Reading a rendered fragment back.                                       *)
(***************************************************************************)
IsSpecial(a) == a \in Special

\* the markup characters of s, the text between them left out
Markup(s) == SelectSeq(s, IsSpecial)

\* html.UnescapeString on the entities escape writes
Unescaped(s) ==
    [i \in 1..Len(s) |->
        CASE s[i] = "&lt;"  -> "<"
          [] s[i] = "&gt;"  -> ">"
          [] s[i] = "&amp;" -> "&"
          [] s[i] = "&#39;" -> "'"
          [] s[i] = "&#34;" -> Quote
          [] OTHER          -> s[i]]

\* where the opening tags named tag start in s
Openers(s, tag) == {i \in 1..(Len(s) - 1) : s[i] = "<" /\ s[i + 1] = tag}

Least(S) == CHOOSE i \in S : \A j \in S : i <= j

\* the n-th smallest element of S
Nth(S, n) == CHOOSE i \in S : Cardinality({j \in S : j < i}) = n - 1

\* the n-th element named tag of s, up to the next one or the end of s
Piece(s, tag, n) ==
    LET O == Openers(s, tag)
    IN  SubSeq(s, Nth(O, n),
               IF n < Cardinality(O) THEN Nth(O, n + 1) - 1 ELSE Len(s))

\* the text of the first element named tag of s: what stands between the end
\* of its opening tag and the next tag
TagText(s, tag) ==
    LET open  == Least(Openers(s, tag))
        close == Least({k \in open..Len(s) : s[k] = ">"})
        next  == Least({k \in close..Len(s) : s[k] = "<"})
    IN  SubSeq(s, close + 1, next - 1)

Count(s, a) == Cardinality({i \in 1..Len(s) : s[i] = a})

\* es with every markup character of every field replaced by a letter
Defused(es) ==
    LET plain(f) == [i \in 1..Len(f) |-> IF f[i] \in Special THEN "x" ELSE f[i]]
    IN  [i \in 1..Len(es) |->
            [es[i] EXCEPT !.URL = plain(@), !.Title = plain(@),
                          !.Description = plain(@), !.Image = plain(@)]]

\* a tag named script opens in s
OpensScript(s) == Openers(s, "script") # {}

(***************************************************************************)
(* Properties of makeListHTML and of GenerateSite.                         *)
(***************************************************************************)
\* C1: whatever stage fails (the input cannot be read, it does not parse, the
\* page template does not parse or does not execute, the output cannot be
\* written), GenerateSite returns an error; and when a stage before the write
\* fails, .site/index.html is left as it was.
C1_EveryFailureReported ==
    pc = "done" =>
        /\ (\/ ~csvFile.readable
            \/ ~csvFile.wellformed
            \/ ~templateParses(tmpl)
            \/ \E i \in 1..Len(tmpl) :
                  tmpl[i].kind = "field"
                  /\ tmpl[i].name \notin
                         {"Title", "Content", "PageTitleBar", "ExtraHeadContent"})
           => (err # "nil" /\ indexFile = started.indexFile)
        /\ indexFile # File(outputContent) => err # "nil"

\* C5: no field of a record reaches the listing or the document as markup:
\* the markup characters of both are those of the same page made from records
\* whose fields hold no markup character at all, and no script tag opens.
C5_FieldsNeverMarkup ==
    /\ listingHTML # <<>> =>
          /\ Markup(listingHTML)
                 = Markup(makeListHTML(Defused(entries), groupedEntries))
          /\ ~OpensScript(listingHTML)
    /\ outputContent # <<>> =>
          /\ Markup(outputContent)
                 = Markup(renderHTMLPage(tmpl, pageTitle, makeHead(Len(entries), now),
                              makeListHTML(Defused(entries), groupedEntries),
                              <<>>).out)
          /\ ~OpensScript(outputContent)

\* the record whose title is <script> is in the document that was written,
\* its title as escaped text
C5_Witness ==
    /\ pc = "done"
    /\ err = "nil"
    /\ Hostile \in Range(entries)
    /\ indexFile = File(outputContent)
    /\ \E i \in 1..(Len(outputContent) - 1) :
          outputContent[i] = "&lt;" /\ outputContent[i + 1] = "script"

\* C6: the listing has one header per group and, under the header of its
\* group, one list item per record, in the group's order: the item links the
\* record's title, has exactly one Description line, showing the description
\* or else the placeholder <none>, and has an Image line exactly when the
\* record's image URL is not empty.
C6_OneItemPerRecord ==
    pc = "listed" =>
        /\ Cardinality(Openers(listingHTML, headerLevel)) = Len(groupedEntries)
        /\ Cardinality(Openers(listingHTML, "li")) = Len(entries)
        /\ \A g \in 1..Len(groupedEntries) :
              LET group == groupedEntries[g]
                  part  == Piece(listingHTML, headerLevel, g)
              IN  /\ TagText(part, headerLevel)
                         = <<MonthNames[Month(group.Date)], " ",
                             ToString(Year(group.Date))>>
                  /\ Cardinality(Openers(part, "li")) = Len(group.Entries)
                  /\ \A n \in 1..Len(group.Entries) :
                        LET article == entries[group.Entries[n]]
                            item    == Piece(part, "li", n)
                        IN  /\ Unescaped(TagText(item, "a")) = article.Title
                            /\ Count(item, "Description:") = 1
                            /\ Unescaped(TagText(item, "i"))
                                   = IF article.Description # <<>>
                                     THEN article.Description
                                     ELSE <<"<", "none", ">">>
                            /\ Count(item, "Image:")
                                   = IF article.Image # <<>> THEN 1 ELSE 0
                            /\ Cardinality(Openers(item, "img"))
                                   = IF article.Image # <<>> THEN 1 ELSE 0

\* a listing of two groups, with a record that has a description and an
\* image and a record that has neither
C6_Witness ==
    /\ pc = "listed"
    /\ Len(groupedEntries) >= 2
    /\ \E i, j \in 1..Len(entries) :
          /\ entries[i].Description # <<>> /\ entries[i].Image # <<>>
          /\ entries[j].Description = <<>> /\ entries[j].Image = <<>>

\* C8: no records give no groups, and no groups give the empty listing: the
\* enclosing element with nothing in it.
C8_EmptyInEmptyOut ==
    /\ (pc \in {"grouped", "listed"} /\ entries = <<>>) => groupedEntries = <<>>
    /\ (pc = "listed" /\ groupedEntries = <<>>)
          => listingHTML = <<"<", "div", ">", "<", "/", "div", ">">>

C8_Witness == pc = "listed" /\ entries = <<>> /\ groupedEntries = <<>>

\* C7: when the stages before it succeed, the write ends with
\* .site/index.html holding exactly the assembled document, whether .site was
\* missing (it is made), was there already (that Mkdir then fails is
\* tolerated) or held an older index.html (it is overwritten); and when the
\* file system does not allow the write, GenerateSite returns an error.
C7_DocumentWritten ==
    (pc = "done" /\ err \in {"nil", "write"}) =>
        /\ (fsHealth = "ok" /\ started.siteDir \in {"missing", "dir"})
              => /\ err = "nil"
                 /\ siteDir = "dir"
                 /\ indexFile = File(outputContent)
                 /\ outputContent # <<>>
        /\ (fsHealth # "ok" \/ started.siteDir = "file") => err = "write"

\* the document written over an older index.html in a .site that was there
C7_Witness ==
    /\ pc = "done"
    /\ err = "nil"
    /\ started.siteDir = "dir"
    /\ started.indexFile = File(<<"old">>)
    /\ tmpl = PageTemplate
    /\ indexFile = File(outputContent)
    /\ indexFile # started.indexFile

====
